---- MODULE Spec2Model ----
(***************************************************************************)
(* Model of logger.ts: one Log instance (its file handle, pending queue,   *)
(* idle-close timer and date marker), the instance level methods           *)
(* debug/info/warn/error (createNewLog), writeLog and closeLogs, run on a  *)
(* single event loop.  Every await of writeLog (Deno.mkdir, Deno.open,     *)
(* FsFile.write) is a suspension point at which other calls, timers and    *)
(* the clock may act.  With it: the console renderer custom, shared by the *)
(* instance, a second instance and the static level functions through the  *)
(* process-wide window label; and DirUtils.readSubDir of sub_dir.ts, the   *)
(* recursive walk of a directory tree.                                     *)
(*                                                                         *)
(* Identities: every level call hands at most one buffer to writeLog, so a *)
(* buffer is named by the call that submitted it; a call opens at most one *)
(* file and arms at most one timer, so a handle and a timer are named by   *)
(* the call that created them.  0 stands for null.                         *)
(***************************************************************************)
EXTENDS Integers, Sequences, FiniteSets, TLC

\* Bounds of the model.
MaxCalls == 2
MaxBurst == 3
MaxDate == 2
MaxTime == 2
MaxTimeout == 1

\* The level calls of a run are numbered in the order they are issued:
\* MaxCalls of them, and MaxBurst in the runs of SpecBurst.
CallIds == 1..MaxBurst
Callers == 1..MaxCalls
Dates == 1..MaxDate
FileTimeouts == {0, MaxTimeout}
\* debug and warn run the code of info with another colour and tag.
Levels == {"info", "error"}
Keys == {"some_value"}
FormatOutcomes == {"ok", "throwsBeforeConsole", "throwsAtText"}
NoTimer == -1
\* What a level function is given as its message: a string, an instance of
\* Error itself, an instance of a subclass of Error.
Messages == {"text", "Error", "TypeError"}

\* The directory tree readSubDir walks.
MaxDepth == 3
MaxEntries == 5
Names == {"a", "b"}
Nodes == UNION {[1..d -> Names] : d \in 1..MaxDepth}
Roots == {<<"tmp">>, <<".", "tmp">>}

VARIABLES
    today,                      \* wall-clock date partition, Day().format(folderDateFormat)
    now,                        \* event-loop clock, in timer units
    shouldConsoleLog,
    shouldSaveConsole,
    fileTimeout,
    values,                     \* keys present in this._values
    logFile,                    \* this._logFile: 0 or the handle it references
    logFileTimeout,             \* this._logFileTimeout: 0 or the timer it references
    logFileTaken,               \* this._logFileTaken
    logFileDate,                \* this._logFileDate
    logDataQueue,               \* this._logDataQueue
    relativePathBeingDisplayed, \* process-wide console window label
    calls,                      \* the level calls: position and locals of each
    handles,                    \* every handle ever opened: "none", "open", "closed"
    timers,                     \* scheduled setTimeout callbacks: due time or NoTimer
    dirs,                       \* date partitions whose directory exists
    created,                    \* date partitions whose log file exists
    inflight,                   \* calls with a write operation pending, in issue order
    writes,                     \* buffers landed on disk, in landing order
    errSink,                    \* number of console.error(e) reports of createNewLog
    lastDone,                   \* clock value when a level call last resolved
    lastAppend,                 \* clock value when writeLog was last called
    rendered,                   \* the most recent console render: its call and what it printed
    tree,                       \* the directory tree under the root: kind of each node
    root,                       \* the path readSubDir was called with
    frames,                     \* the activations of _readSubDir, innermost last
    listing                     \* the promise returned by readSubDir

vars == <<today, now, shouldConsoleLog, shouldSaveConsole, fileTimeout, values,
          logFile, logFileTimeout, logFileTaken, logFileDate, logDataQueue,
          relativePathBeingDisplayed, calls, handles, timers, dirs, created,
          inflight, writes, errSink, lastDone, lastAppend, rendered, tree, root,
          frames, listing>>

config == <<shouldConsoleLog, shouldSaveConsole, fileTimeout>>
clocks == <<today, now>>
disk == <<dirs, created, writes>>
ops == <<inflight>>
console == <<relativePathBeingDisplayed, rendered>>
subDir == <<tree, root, frames, listing>>
\* Everything that belongs to the Log instance and to its files.
instance == <<config, values, logFile, logFileTimeout, logFileTaken, logFileDate,
              logDataQueue, calls, handles, timers, disk, ops, errSink,
              lastDone, lastAppend>>

NewCall == [pc |-> "new", type |-> "info", vals |-> {}, date |-> 0, i |-> 0,
            h |-> 0, buf |-> 0, found |-> 0, via |-> 0, pushed |-> FALSE,
            threw |-> FALSE, result |-> "pending"]

\* relativePathString of the instance: the console window label.
relativePathString == "test.log"
\* relativePathString of a second instance, constructed with an empty filePath.
otherPathString == "other/uuid.log"

\* No console render has happened yet.
NoRender == [by |-> "none", level |-> "info", msg |-> "text", label |-> "",
             pre |-> "", lines |-> <<>>, valuesLog |-> FALSE, result |-> "none",
             preBorder |-> "none", border |-> "none"]
\* readSubDir has not been called.
NoListing == [state |-> "idle", files |-> <<>>]

InFlight(c) == calls[c].pc \in {"mkdir", "open", "write"}
Idle == \A c \in CallIds : ~InFlight(c)
\* Calls are numbered in the order they are issued.
NextCall(c) == calls[c].pc = "new" /\ \A d \in CallIds : d < c => calls[d].pc # "new"

Init ==
    /\ today = 1
    /\ now = 0
    /\ shouldConsoleLog \in BOOLEAN
    /\ shouldSaveConsole \in BOOLEAN
    /\ fileTimeout \in FileTimeouts
    /\ values \in SUBSET Keys
    /\ logFile = 0
    /\ logFileTimeout = 0
    /\ logFileTaken = FALSE
    /\ logFileDate = today
    /\ logDataQueue = <<>>
    /\ relativePathBeingDisplayed = ""
    /\ calls = [c \in CallIds |-> NewCall]
    /\ handles = [c \in CallIds |-> "none"]
    /\ timers = [c \in CallIds |-> NoTimer]
    /\ dirs = {}
    /\ created = {}
    /\ inflight = <<>>
    /\ writes = <<>>
    /\ errSink = 0
    /\ lastDone = 0
    /\ lastAppend = 0
    /\ rendered = NoRender
    /\ tree = [n \in Nodes |-> "absent"]
    /\ root = <<>>
    /\ frames = <<>>
    /\ listing = NoListing

(***************************************************************************)
(* Pure parts of the code.                                                 *)
(***************************************************************************)

\* The console window label sent by the static level functions (output.*),
\* `usePrevLog || undefined`: the continuation sentinel true, or no label.
Sentinel == "<true>"
Absent == "<undefined>"

\* Mutant of customWindow: the window label is never assigned.
customWindowKept(cur, rp) == cur

\* custom: the window label after a render with label rp.
customWindow(cur, rp) ==
    IF (rp = Sentinel /\ cur # "") \/ cur = rp
    THEN cur
    ELSE IF rp # Absent /\ rp # "" /\ rp # Sentinel THEN rp ELSE ""

\* output.*: `usePrevLog || undefined`, the label the static level functions
\* hand to custom.
outputLabel(usePrevLog) == IF usePrevLog THEN Sentinel ELSE Absent

\* custom: `message?.constructor == Error`, the test that turns isError on.
constructorIsError(msg) == msg = "Error"

\* custom: isError when the message line is printed.
customIsError(msg, isError) == isError \/ constructorIsError(msg)

\* Mutant of customContinues: no line is taken to continue a window.
customContinuesNever(cur, rp) == FALSE

\* custom: the first branch, the line continues the window on display.
customContinues(cur, rp) == (rp = Sentinel /\ cur # "") \/ cur = rp

\* Mutants of customOpens: no label opens a window; whatever is given as the
\* label opens one.
customOpensNever(rp) == FALSE
customOpensAlways(rp) == TRUE

\* custom: `relativePath && relativePath !== true`, a header is displayed.
customOpens(rp) == rp # Absent /\ rp # "" /\ rp # Sentinel

\* The lines custom can print.
Footer == [kind |-> "footer", sink |-> "log", label |-> "", prefix |-> FALSE]
Header(rp) == [kind |-> "header", sink |-> "log", label |-> rp, prefix |-> FALSE]
Line(err, pfx) ==
    [kind |-> "line", sink |-> IF err THEN "error" ELSE "log", label |-> "",
     prefix |-> pfx]

\* custom: what it prints, first to last, when the window on display is cur,
\* the label is rp and isError is err.
customLines(cur, rp, err) ==
    IF customContinues(cur, rp)
    THEN <<Line(err, TRUE)>>
    ELSE (IF cur # "" THEN <<Footer>> ELSE <<>>) \o
         (IF customOpens(rp) THEN <<Header(rp), Line(err, TRUE)>>
                             ELSE <<Line(err, FALSE)>>)

\* Mutant of customResult: custom is asynchronous and hands back a promise.
customResultPromise == "promise"

\* custom: `return null`.
customResult == "null"

\* The headers and footers among the lines custom prints.
Borders(lines) == SelectSeq(lines, LAMBDA l : l.kind \in {"header", "footer"})

\* The border custom printed last, prev being the one printed last before
\* the call: "none" as long as none was printed.
customBorder(prev, lines) ==
    IF Borders(lines) = <<>> THEN prev
    ELSE Borders(lines)[Len(Borders(lines))].kind

\* A call of custom made by `by` (a level function of the instance, of the
\* second instance, or a static one) at level type with message msg and label
\* rp while the window on display is cur; valuesLog tells whether the values
\* are displayed right after it; preBorder and border are the border printed
\* last before the call and after it.
Render(by, type, msg, rp, cur) ==
    [by |-> by, level |-> type, msg |-> msg, label |-> rp, pre |-> cur,
     lines |-> customLines(cur, rp, customIsError(msg, type = "error")),
     valuesLog |-> by # "static" /\ type = "error", result |-> customResult,
     preBorder |-> rendered.border,
     border |-> customBorder(rendered.border,
                             customLines(cur, rp, customIsError(msg, type = "error")))]

\* Mutant of ShouldSave: the shouldSaveConsole test is lost.
ShouldSaveAlways == TRUE

\* createNewLog: `if (this.shouldSaveConsole)`.
ShouldSave == shouldSaveConsole

\* type.toUpperCase().
ToUpperCase(type) ==
    CASE type = "debug" -> "DEBUG"
      [] type = "info" -> "INFO"
      [] type = "warn" -> "WARN"
      [] type = "error" -> "ERROR"

\* Mutant of LogText: the values line of an error is left out.
LogTextNoDump(c, type, vals) ==
    <<[call |-> c, kind |-> "message", tag |-> ToUpperCase(type)]>>

\* createNewLog: the text handed to writeLog, as its "\n"-terminated lines.
LogText(c, type, vals) ==
    <<[call |-> c, kind |-> "message", tag |-> ToUpperCase(type)]>> \o
    (IF type = "error"
     THEN <<[call |-> c, kind |-> "values", tag |-> vals]>>
     ELSE <<>>)

\* Mutant of createNewLogResult: no catch block, the exception rejects the promise.
createNewLogResultUncaught(threw) == IF threw THEN "rejected" ELSE "null"

\* createNewLog: what the returned promise settles to; `threw` tells whether
\* an exception was raised inside the try block.
createNewLogResult(threw) == "null"

\* createNewLog: console.error(e) in the catch block.
ErrSinkAfterCatch(n) == n + 1

\* writeLog: `if (!this._logFile || this._logFileDate !== date)`.
NeedsOpen(lf, lfd, date) == lf = 0 \/ lfd # date

\* writeLog: `this.fileTimeout ?? 0 > 0 ? setTimeout(...) : null` parses as
\* `(this.fileTimeout ?? (0 > 0)) ? ... : null`: the truthiness of fileTimeout.
TimerArmed(ft) == ft # 0

\* Mutant of TimerDue: the callback is scheduled one unit late.
TimerDueLate(t, ft) == t + ft + 1

\* setTimeout(this.closeLogs, this.fileTimeout), scheduled at clock value t.
TimerDue(t, ft) == t + ft

\* writeLog: `this._logDataQueue.push(data)`.
QueueAfterPush(q, b) == Append(q, b)

\* Mutant of QueueAfterDrain: the queue is not emptied after the drain.
QueueAfterDrainKept(q) == q

\* writeLog: `this._logDataQueue.length = 0`.
QueueAfterDrain(q) == <<>>

\* closeLogs, as the new value of each thing it touches.  lf and lt are
\* this._logFile and this._logFileTimeout when it is called.
closeLogsFile(lf) == 0
closeLogsTimeout(lf, lt) == IF lf # 0 THEN 0 ELSE lt
closeLogsHandles(lf, hs) == IF lf # 0 THEN [hs EXCEPT ![lf] = "closed"] ELSE hs
\* Mutant of closeLogsTimers: the timer is not cancelled.
closeLogsTimersKept(lf, lt, ts) == ts

closeLogsTimers(lf, lt, ts) ==
    IF lf # 0 /\ lt # 0 THEN [ts EXCEPT ![lt] = NoTimer] ELSE ts
closeLogsDate(lfd) == lfd

\* The date partition a handle was opened in: absolutePath as computed by the
\* call that opened it.
HandleDate(h) == calls[h].date

(***************************************************************************)
(* createNewLog and writeLog.                                              *)
(***************************************************************************)

\* The call's record once createNewLog has caught an exception.
Caught(cr) ==
    [cr EXCEPT !.pc = "done", !.i = 0, !.h = 0, !.buf = 0, !.threw = TRUE,
               !.result = createNewLogResult(TRUE)]

\* The call's record once createNewLog has returned normally.
Returned(cr) ==
    [cr EXCEPT !.pc = "done", !.i = 0, !.h = 0, !.buf = 0,
               !.result = createNewLogResult(FALSE)]

\* An exception raised in the try block of call c, whose record is cr.
Throw(c, cr) ==
    /\ calls' = [calls EXCEPT ![c] = Caught(cr)]
    /\ errSink' = ErrSinkAfterCatch(errSink)
    /\ lastDone' = now

\* writeLog from `for (const data of this._logDataQueue)` on, for call c with
\* record cr, at array-iterator index idx, up to its next await or its return.
\* q, lf, lt, hs, ts, fl are the queue, this._logFile, this._logFileTimeout, the
\* handles, the timers and the pending writes as the preceding statements of the
\* same step left them.
Drain(c, cr, idx, q, lf, lt, hs, ts, fl) ==
    IF idx < Len(q)
    THEN IF lf = 0
         THEN \* this._logFile is null: `this._logFile.write` throws a TypeError
              /\ Throw(c, cr)
              /\ logDataQueue' = q
              /\ logFile' = lf
              /\ logFileTimeout' = lt
              /\ handles' = hs
              /\ timers' = ts
              /\ inflight' = fl
              /\ UNCHANGED logFileTaken
         ELSE /\ calls' = [calls EXCEPT ![c] =
                     [cr EXCEPT !.pc = "write", !.i = idx, !.h = lf,
                                !.buf = q[idx + 1],
                                !.via = IF cr.via = 0 THEN lf ELSE cr.via]]
              /\ logDataQueue' = q
              /\ logFile' = lf
              /\ logFileTimeout' = lt
              /\ handles' = hs
              /\ timers' = ts
              /\ inflight' = Append(fl, c)
              /\ UNCHANGED <<logFileTaken, errSink, lastDone>>
    ELSE /\ logDataQueue' = QueueAfterDrain(q)
         /\ logFileTaken' = FALSE
         /\ logFile' = IF lt = 0 THEN closeLogsFile(lf) ELSE lf
         /\ logFileTimeout' = IF lt = 0 THEN closeLogsTimeout(lf, lt) ELSE lt
         /\ handles' = IF lt = 0 THEN closeLogsHandles(lf, hs) ELSE hs
         /\ timers' = IF lt = 0 THEN closeLogsTimers(lf, lt, ts) ELSE ts
         /\ calls' = [calls EXCEPT ![c] = Returned(cr)]
         /\ inflight' = fl
         /\ lastDone' = now
         /\ UNCHANGED errSink

\* A level method (debug/info/warn/error) of the instance is called:
\* createNewLog, and writeLog within it, up to the first await.
Level(c, type, fmt, msg) ==
    /\ NextCall(c)
    /\ LET vals == IF type = "error" THEN values ELSE {}
           cr0 == [calls[c] EXCEPT !.type = type, !.vals = vals]
           date == today
           q == QueueAfterPush(logDataQueue, c)
           cr1 == [cr0 EXCEPT !.date = date, !.pushed = TRUE,
                              !.found = IF logFile # 0 /\ HandleDate(logFile) = date
                                        THEN logFile ELSE 0]
       IN  /\ relativePathBeingDisplayed' =
                 IF shouldConsoleLog /\ fmt # "throwsBeforeConsole"
                 THEN customWindow(relativePathBeingDisplayed, relativePathString)
                 ELSE relativePathBeingDisplayed
           /\ rendered' =
                 IF shouldConsoleLog /\ fmt # "throwsBeforeConsole"
                 THEN Render("instance", type, msg, relativePathString,
                             relativePathBeingDisplayed)
                 ELSE rendered
           /\ lastAppend' =
                 IF fmt = "ok" /\ ShouldSave THEN now ELSE lastAppend
           /\ IF fmt = "throwsBeforeConsole" \/ (fmt = "throwsAtText" /\ ShouldSave)
              THEN /\ Throw(c, cr0)
                   /\ UNCHANGED <<logFile, logFileTimeout, logFileTaken,
                                  logFileDate, logDataQueue, handles, timers,
                                  inflight>>
              ELSE IF ~ShouldSave
              THEN /\ calls' = [calls EXCEPT ![c] = Returned(cr0)]
                   /\ lastDone' = now
                   /\ UNCHANGED <<logFile, logFileTimeout, logFileTaken, logFileDate,
                                  logDataQueue, handles, timers, inflight, errSink>>
              ELSE IF logFileTaken
              THEN /\ calls' = [calls EXCEPT ![c] = Returned(cr1)]
                   /\ logDataQueue' = q
                   /\ lastDone' = now
                   /\ UNCHANGED <<logFile, logFileTimeout, logFileTaken, logFileDate,
                                  handles, timers, inflight, errSink>>
              ELSE IF NeedsOpen(logFile, logFileDate, date)
              THEN /\ logFileDate' = date
                   /\ logFile' = closeLogsFile(logFile)
                   /\ logFileTimeout' = closeLogsTimeout(logFile, logFileTimeout)
                   /\ handles' = closeLogsHandles(logFile, handles)
                   /\ timers' = closeLogsTimers(logFile, logFileTimeout, timers)
                   /\ logDataQueue' = q
                   /\ calls' = [calls EXCEPT ![c] = [cr1 EXCEPT !.pc = "mkdir"]]
                   /\ UNCHANGED <<logFileTaken, inflight, errSink, lastDone>>
              ELSE /\ Drain(c, cr1, 0, q, logFile, logFileTimeout, handles, timers,
                            inflight)
                   /\ UNCHANGED logFileDate
    /\ UNCHANGED <<subDir, config, clocks, values, disk>>

\* `await Deno.mkdir(..., { recursive: true })` completes.
MkdirDone(c) ==
    /\ calls[c].pc = "mkdir"
    /\ dirs' = dirs \cup {calls[c].date}
    /\ calls' = [calls EXCEPT ![c].pc = "open"]
    /\ UNCHANGED <<subDir, lastAppend, config, clocks, values,
                   logFile, logFileTimeout, logFileTaken,
                   logFileDate, logDataQueue, console, handles,
                   timers, created, inflight, writes, errSink, lastDone>>

\* `await Deno.mkdir(...)` rejects.
MkdirFail(c) ==
    /\ calls[c].pc = "mkdir"
    /\ Throw(c, calls[c])
    /\ UNCHANGED <<subDir, lastAppend, config, clocks, values,
                   logFile, logFileTimeout, logFileTaken,
                   logFileDate, logDataQueue, console, handles,
                   timers, disk, ops>>

\* `this._logFile = await Deno.open(...)` completes; the timer is armed and the
\* drain loop runs to its first write.
OpenDone(c) ==
    /\ calls[c].pc = "open"
    /\ created' = created \cup {calls[c].date}
    /\ LET armed == TimerArmed(fileTimeout)
       IN  Drain(c, calls[c], 0, logDataQueue, c,
                 IF armed THEN c ELSE 0,
                 [handles EXCEPT ![c] = "open"],
                 IF armed THEN [timers EXCEPT ![c] = TimerDue(now, fileTimeout)]
                          ELSE timers,
                 inflight)
    /\ UNCHANGED <<subDir, lastAppend, config, clocks, values,
                   logFileDate, console,
                   dirs, writes>>

\* `await Deno.open(...)` rejects.
OpenFail(c) ==
    /\ calls[c].pc = "open"
    /\ Throw(c, calls[c])
    /\ UNCHANGED <<subDir, lastAppend, config, clocks, values,
                   logFile, logFileTimeout, logFileTaken,
                   logFileDate, logDataQueue, console, handles,
                   timers, disk, ops>>

\* The write operations pending on one handle are carried out, and complete,
\* in the order they were issued; those on different handles in any order.
FirstOnHandle(c) ==
    \A k \in 1..Len(inflight) :
        calls[inflight[k]].h = calls[c].h => \E m \in 1..k : inflight[m] = c

Without(fl, c) == SelectSeq(fl, LAMBDA d : d # c)

\* `await this._logFile.write(data)` completes: the buffer has reached the file
\* (the operation holds its handle, so it lands even if the handle was closed
\* since it was issued), and the loop goes on to its next iteration or the
\* statements after it.
WriteDone(c) ==
    /\ calls[c].pc = "write"
    /\ FirstOnHandle(c)
    /\ writes' = Append(writes, [buf |-> calls[c].buf,
                                 part |-> HandleDate(calls[c].h)])
    /\ Drain(c, calls[c], calls[c].i + 1, logDataQueue, logFile, logFileTimeout,
             handles, timers, Without(inflight, c))
    /\ UNCHANGED <<subDir, lastAppend, config, clocks, values,
                   logFileDate, console,
                   dirs, created>>

\* `await this._logFile.write(data)` rejects: nothing reached the file.
WriteFail(c) ==
    /\ calls[c].pc = "write"
    /\ FirstOnHandle(c)
    /\ inflight' = Without(inflight, c)
    /\ Throw(c, calls[c])
    /\ UNCHANGED <<subDir, lastAppend, config, clocks, values,
                   logFile, logFileTimeout, logFileTaken,
                   logFileDate, logDataQueue, console, handles,
                   timers, disk>>

(***************************************************************************)
(* closeLogs: as the idle-close timer's callback, and called by the user.  *)
(***************************************************************************)

TimerFire(t) ==
    /\ timers[t] # NoTimer
    /\ timers[t] <= now
    /\ LET ts == [timers EXCEPT ![t] = NoTimer]
       IN  /\ logFile' = closeLogsFile(logFile)
           /\ logFileTimeout' = closeLogsTimeout(logFile, logFileTimeout)
           /\ handles' = closeLogsHandles(logFile, handles)
           /\ timers' = closeLogsTimers(logFile, logFileTimeout, ts)
           /\ logFileDate' = closeLogsDate(logFileDate)
    /\ UNCHANGED <<subDir, lastAppend, config, clocks, values,
                   logFileTaken, logDataQueue,
                   console, calls, disk, ops, errSink, lastDone>>

closeLogs ==
    /\ logFile' = closeLogsFile(logFile)
    /\ logFileTimeout' = closeLogsTimeout(logFile, logFileTimeout)
    /\ handles' = closeLogsHandles(logFile, handles)
    /\ timers' = closeLogsTimers(logFile, logFileTimeout, timers)
    /\ logFileDate' = closeLogsDate(logFileDate)
    /\ UNCHANGED <<subDir, lastAppend, config, clocks, values,
                   logFileTaken, logDataQueue,
                   console, calls, disk, ops, errSink, lastDone>>

(***************************************************************************)
(* The console-only callers of custom.                                     *)
(***************************************************************************)

\* Log.debug/info/warn/error(message, usePrevLog): the static level functions,
\* output.* itself.
StaticLevel(type, usePrevLog, msg) ==
    /\ relativePathBeingDisplayed' =
          customWindow(relativePathBeingDisplayed, outputLabel(usePrevLog))
    /\ rendered' = Render("static", type, msg, outputLabel(usePrevLog),
                          relativePathBeingDisplayed)
    /\ UNCHANGED <<subDir, clocks, instance>>

\* A level method of a second Log instance, constructed with an empty filePath
\* and shouldSaveConsole: false: createNewLog displays the line, and the values
\* after an error, and returns.
OtherLevel(type, msg) ==
    /\ relativePathBeingDisplayed' =
          customWindow(relativePathBeingDisplayed, otherPathString)
    /\ rendered' = Render("other", type, msg, otherPathString,
                          relativePathBeingDisplayed)
    /\ UNCHANGED <<subDir, clocks, instance>>

(***************************************************************************)
(* The environment: the values setter, the clock and the calendar.         *)
(***************************************************************************)

\* `set values(data)`: merges the keys of data into this._values.
SetValues(data) ==
    /\ values' = values \cup data
    /\ values' # values
    /\ UNCHANGED <<subDir, lastAppend, config, clocks,
                   logFile, logFileTimeout, logFileTaken,
                   logFileDate, logDataQueue, console, calls,
                   handles, timers, disk, ops, errSink, lastDone>>

\* The clock advances; a due timer callback runs before it advances further.
Tick ==
    /\ now < MaxTime
    /\ \A t \in CallIds : timers[t] = NoTimer \/ timers[t] > now
    /\ now' = now + 1
    /\ UNCHANGED <<today, subDir, lastAppend, config, values,
                   logFile, logFileTimeout, logFileTaken,
                   logFileDate, logDataQueue, console, calls,
                   handles, timers, disk, ops, errSink, lastDone>>

\* Midnight passes: Day().format(folderDateFormat) changes.
DateRoll ==
    /\ today < MaxDate
    /\ today' = today + 1
    /\ UNCHANGED <<now, subDir, lastAppend, config, values,
                   logFile, logFileTimeout, logFileTaken,
                   logFileDate, logDataQueue, console, calls,
                   handles, timers, disk, ops, errSink, lastDone>>

\* Level calls issued at any time (also while earlier ones are suspended), every
\* I/O operation free to fail, closeLogs called by the user at any time.  The
\* values are those given at construction (initValues); the setter, which
\* touches nothing of the writer, acts in SpecAwaited.
Next ==
    \/ \E c \in Callers, type \in Levels, fmt \in FormatOutcomes, msg \in Messages :
           Level(c, type, fmt, msg)
    \/ \E c \in CallIds : MkdirDone(c)
    \/ \E c \in CallIds : MkdirFail(c)
    \/ \E c \in CallIds : OpenDone(c)
    \/ \E c \in CallIds : OpenFail(c)
    \/ \E c \in CallIds : WriteFail(c)
    \/ \E c \in CallIds : WriteDone(c)
    \/ \E t \in CallIds : TimerFire(t)
    \/ closeLogs
    \/ Tick
    \/ DateRoll

Spec == Init /\ [][Next]_vars

\* The caller awaits every level call before issuing the next, and no
\* directory creation, open or write fails.
LevelAwaited(c, type, msg) == Idle /\ Level(c, type, "ok", msg)

NextAwaited ==
    \/ \E c \in Callers, type \in Levels, msg \in Messages : LevelAwaited(c, type, msg)
    \/ \E c \in CallIds : MkdirDone(c)
    \/ \E c \in CallIds : OpenDone(c)
    \/ \E c \in CallIds : WriteDone(c)
    \/ \E t \in CallIds : TimerFire(t)
    \/ \E data \in SUBSET Keys : SetValues(data)
    \/ Tick
    \/ DateRoll

SpecAwaited == Init /\ [][NextAwaited]_vars

\* Level calls issued at any time, also while earlier ones are suspended, and
\* idle-close timer firings, within one day; every directory creation, open
\* and write succeeds, and closeLogs is not called by the user.
NextOverlapped ==
    \/ \E c \in Callers, type \in Levels, msg \in Messages : Level(c, type, "ok", msg)
    \/ \E c \in CallIds : MkdirDone(c)
    \/ \E c \in CallIds : OpenDone(c)
    \/ \E c \in CallIds : WriteDone(c)
    \/ \E t \in CallIds : TimerFire(t)
    \/ Tick

SpecOverlapped == Init /\ [][NextOverlapped]_vars

\* A burst of MaxBurst info calls on an instance that saves without a timer
\* and does not display, issued at any time within one clock unit; every
\* directory creation, open and write may fail.
InitBurst ==
    /\ Init
    /\ ~shouldConsoleLog
    /\ shouldSaveConsole
    /\ fileTimeout = 0
    /\ values = {}

NextBurst ==
    \/ \E c \in CallIds : Level(c, "info", "ok", "text")
    \/ \E c \in CallIds : MkdirDone(c)
    \/ \E c \in CallIds : MkdirFail(c)
    \/ \E c \in CallIds : OpenDone(c)
    \/ \E c \in CallIds : OpenFail(c)
    \/ \E c \in CallIds : WriteDone(c)
    \/ \E c \in CallIds : WriteFail(c)

SpecBurst == InitBurst /\ [][NextBurst]_vars

\* The console: awaited level calls of the instance, interleaved with static
\* level calls and with level calls of a second instance, within one clock
\* unit of one day.
NextConsole ==
    \/ \E c \in Callers, type \in Levels, msg \in Messages : LevelAwaited(c, type, msg)
    \/ \E type \in Levels, usePrevLog \in BOOLEAN, msg \in Messages :
           StaticLevel(type, usePrevLog, msg)
    \/ \E type \in Levels, msg \in Messages : OtherLevel(type, msg)
    \/ \E c \in CallIds : MkdirDone(c)
    \/ \E c \in CallIds : OpenDone(c)
    \/ \E c \in CallIds : WriteDone(c)

SpecConsole == Init /\ [][NextConsole]_vars

(***************************************************************************)
(* DirUtils.readSubDir.  A path is the sequence of its segments; a node of *)
(* the tree is the sequence of names leading to it from the root, which is *)
(* itself a directory.                                                     *)
(***************************************************************************)

\* Path.normalize, as Path.join applies it: "." and empty segments go.
Normalize(p) == SelectSeq(p, LAMBDA s : s # "." /\ s # "")

\* Path.join(path, name).
Join(path, name) == Normalize(path \o <<name>>)

\* Path.isAbsolute(entry.name): the name of a directory entry has no separator.
IsAbsolute(name) == FALSE

\* The node the file system resolves path p to, r being the root's path.
NodeOf(r, p) == SubSeq(Normalize(p), Len(Normalize(r)) + 1, Len(Normalize(p)))

Parent(node) == SubSeq(node, 1, Len(node) - 1)
Entries == {n \in Nodes : tree[n] # "absent"}

\* The node lies in the root or in a directory that exists.
InDirectory(node) == IF Len(node) = 1 THEN TRUE ELSE tree[Parent(node)] = "dir"

\* Deno.readDir(path): the names of the entries of the directory at node.
readDir(node) ==
    {name \in Names : Len(node) < MaxDepth /\ tree[node \o <<name>>] # "absent"}

\* Mutant of isDirectory: no entry is taken for a directory.
isDirectoryNever(kind) == FALSE

\* entry.isDirectory and entry.isFile of a Deno.DirEntry.
isDirectory(kind) == kind = "dir"
isFile(kind) == kind = "file"

\* The SubDirEntry pushed for a file.
SubDirEntry(path, name) ==
    [name |-> name, direcotry |-> path,
     path |-> IF IsAbsolute(name) THEN <<name>> ELSE Join(path, name)]

\* An activation of _readSubDir(path, []) on entering its loop.
Frame(r, path) == [path |-> path, todo |-> readDir(NodeOf(r, path)), filesRead |-> <<>>]

\* The tree is made before the walk: a file, a directory or a symbolic link
\* is created in the root or in a directory that exists.
CreateEntry(node, kind) ==
    /\ listing.state = "idle"
    /\ tree[node] = "absent"
    /\ InDirectory(node)
    /\ Cardinality(Entries) < MaxEntries
    /\ tree' = [tree EXCEPT ![node] = kind]
    /\ UNCHANGED <<root, frames, listing, console, clocks, instance>>

\* DirUtils.readSubDir(r).
readSubDir(r) ==
    /\ listing.state = "idle"
    /\ root' = r
    /\ frames' = <<Frame(r, r)>>
    /\ listing' = [state |-> "pending", files |-> <<>>]
    /\ UNCHANGED <<tree, console, clocks, instance>>

\* One iteration of `for await (const entry of Deno.readDir(path))` in the
\* innermost activation, up to the recursive call if it makes one.
ReadEntry(name) ==
    /\ frames # <<>>
    /\ LET n == Len(frames)
           top == frames[n]
           kind == tree[NodeOf(root, top.path) \o <<name>>]
           rest == [top EXCEPT !.todo = top.todo \ {name}]
       IN  /\ name \in top.todo
           /\ frames' =
                 IF isDirectory(kind)
                 THEN Append([frames EXCEPT ![n] = rest],
                             Frame(root, Join(top.path, name)))
                 ELSE IF isFile(kind)
                 THEN [frames EXCEPT ![n] =
                          [rest EXCEPT !.filesRead =
                              Append(top.filesRead, SubDirEntry(top.path, name))]]
                 ELSE [frames EXCEPT ![n] = rest]
    /\ UNCHANGED <<tree, root, listing, console, clocks, instance>>

\* `return filesRead`: to the activation that awaits it, which pushes the
\* files onto its own list, or to the caller of readSubDir.
ReturnFilesRead ==
    /\ frames # <<>>
    /\ LET n == Len(frames)
           top == frames[n]
       IN  /\ top.todo = {}
           /\ frames' =
                 IF n = 1 THEN <<>>
                 ELSE [SubSeq(frames, 1, n - 1) EXCEPT ![n - 1].filesRead =
                          frames[n - 1].filesRead \o top.filesRead]
           /\ listing' =
                 IF n = 1 THEN [state |-> "resolved", files |-> top.filesRead]
                 ELSE listing
    /\ UNCHANGED <<tree, root, console, clocks, instance>>

\* The instance is constructed with its defaults and stays unused.
InitSubDir ==
    /\ Init
    /\ shouldConsoleLog
    /\ shouldSaveConsole
    /\ fileTimeout = MaxTimeout
    /\ values = {}

NextSubDir ==
    \/ \E node \in Nodes, kind \in {"file", "dir", "symlink"} : CreateEntry(node, kind)
    \/ \E r \in Roots : readSubDir(r)
    \/ \E name \in Names : ReadEntry(name)
    \/ ReturnFilesRead

SpecSubDir == InitSubDir /\ [][NextSubDir]_vars

(***************************************************************************)
(* What is on disk, and what was submitted.                                *)
(***************************************************************************)

RECURSIVE SubmittedUpTo(_)
SubmittedUpTo(n) ==
    IF n = 0 THEN <<>>
    ELSE SubmittedUpTo(n - 1) \o (IF calls[n].pushed THEN <<n>> ELSE <<>>)

\* The buffers handed to writeLog, in submission order.
Submitted == SubmittedUpTo(MaxBurst)

RECURSIVE BuffersIn(_, _)
BuffersIn(ws, d) ==
    IF ws = <<>> THEN <<>>
    ELSE (IF Head(ws).part = d THEN <<Head(ws).buf>> ELSE <<>>) \o BuffersIn(Tail(ws), d)

\* The buffers in the log file of date partition d, first to last.
FileOf(d) == BuffersIn(writes, d)

RECURSIVE FilesUpTo(_)
FilesUpTo(d) == IF d = 0 THEN <<>> ELSE FilesUpTo(d - 1) \o FileOf(d)

\* The log files of all partitions, oldest partition first.
AllFiles == FilesUpTo(MaxDate)

RECURSIVE LinesOf(_)
LinesOf(bufs) ==
    IF bufs = <<>> THEN <<>>
    ELSE LogText(Head(bufs), calls[Head(bufs)].type, calls[Head(bufs)].vals)
         \o LinesOf(Tail(bufs))

RECURSIVE LinesOfCall(_, _)
LinesOfCall(ls, c) ==
    IF ls = <<>> THEN <<>>
    ELSE (IF Head(ls).call = c THEN <<Head(ls)>> ELSE <<>>) \o LinesOfCall(Tail(ls), c)

OpenHandles == {h \in CallIds : handles[h] = "open"}
Scheduled == {t \in CallIds : timers[t] # NoTimer}

(***************************************************************************)
(* C1.  Awaited appends with fileTimeout = 0 and no I/O failure: whenever  *)
(* no call is in progress, the log files (oldest partition first) hold     *)
(* exactly the submitted lines, each once, in submission order.            *)
(***************************************************************************)
C1_AwaitedAppendsKeepEveryLineInOrder ==
    (fileTimeout = 0 /\ Idle) =>
        /\ AllFiles = Submitted
        /\ LinesOf(AllFiles) = LinesOf(Submitted)
        /\ \A w \in 1..Len(writes) : writes[w].part \in created

C1_Witness ==
    /\ fileTimeout = 0
    /\ Idle
    /\ Len(Submitted) = MaxCalls
    /\ AllFiles = Submitted
    /\ \E c \in CallIds : calls[c].type = "error"

(***************************************************************************)
(* C2.  Buffers reach the disk in submission order, also when append calls *)
(* overlap: no buffer lands after a buffer submitted later than it.        *)
(***************************************************************************)
C2_WritesInSubmissionOrder ==
    \A a, b \in 1..Len(writes) : a < b => writes[a].buf <= writes[b].buf

(***************************************************************************)
(* C3.  Awaited appends with fileTimeout > 0 and no I/O failure:           *)
(*  - the handle stays open, referenced by the instance, as long as its    *)
(*    idle-close callback is scheduled;                                    *)
(*  - an append issued while a handle of the current date partition is     *)
(*    open opens no file of its own and writes through that handle;        *)
(*  - once more than fileTimeout has passed since the last append          *)
(*    resolved, no handle is open.                                         *)
(***************************************************************************)
C3_HandleReusedThenClosedByTimer ==
    fileTimeout > 0 =>
        /\ \A t \in Scheduled :
               handles[t] = "open" /\ logFile = t /\ logFileTimeout = t
        /\ \A c \in CallIds :
               calls[c].found # 0 =>
                   handles[c] = "none" /\ calls[c].via = calls[c].found
        /\ (Idle /\ now > lastDone + fileTimeout) => OpenHandles = {}

C3_Witness ==
    /\ fileTimeout > 0
    /\ today = 1
    /\ Idle
    /\ now > lastDone + fileTimeout
    /\ \E c \in CallIds :
           /\ calls[c].pc = "done"
           /\ calls[c].found # 0
           /\ calls[c].via = calls[c].found
           /\ handles[calls[c].found] = "closed"
    /\ Len(writes) = MaxCalls

(***************************************************************************)
(* C4.  With shouldSaveConsole = false no level call ever creates a        *)
(* directory or a file, opens a handle, enqueues a buffer or arms a timer. *)
(***************************************************************************)
C4_NoSaveTouchesNoFile ==
    ~shouldSaveConsole =>
        /\ dirs = {}
        /\ created = {}
        /\ writes = <<>>
        /\ inflight = <<>>
        /\ logDataQueue = <<>>
        /\ logFile = 0
        /\ logFileTimeout = 0
        /\ \A c \in CallIds :
               handles[c] = "none" /\ timers[c] = NoTimer /\ ~calls[c].pushed

C4_Witness ==
    /\ ~shouldSaveConsole
    /\ \A c \in Callers : calls[c].pc = "done"
    /\ \E c \in CallIds : calls[c].type = "error"
    /\ \E c \in CallIds : calls[c].type = "info"
    /\ dirs = {}
    /\ created = {}

(***************************************************************************)
(* C5.  Awaited calls, no I/O failure, shouldSaveConsole = true: a         *)
(* resolved error(...) call made with non-empty values has put exactly two *)
(* lines in the file, the message line tagged ERROR immediately followed   *)
(* by the line dumping the values.                                         *)
(***************************************************************************)
C5_ErrorWritesMessageThenValues ==
    \A c \in CallIds :
        (calls[c].pc = "done" /\ calls[c].type = "error" /\ calls[c].vals # {}
         /\ shouldSaveConsole) =>
            LET lines == LinesOf(AllFiles)
                msg == [call |-> c, kind |-> "message", tag |-> "ERROR"]
                dump == [call |-> c, kind |-> "values", tag |-> calls[c].vals]
            IN  /\ LinesOfCall(lines, c) = <<msg, dump>>
                /\ \E k \in 1..(Len(lines) - 1) :
                       lines[k] = msg /\ lines[k + 1] = dump

C5_Witness ==
    /\ shouldSaveConsole
    /\ \E c \in CallIds :
           /\ calls[c].pc = "done"
           /\ calls[c].type = "error"
           /\ calls[c].vals # {}
           /\ Len(LinesOfCall(LinesOf(AllFiles), c)) = 2
    /\ \E c \in CallIds : calls[c].pc = "done" /\ calls[c].type = "info"

(***************************************************************************)
(* C6.  No cross-partition writes: a buffer lands in the date partition    *)
(* that is current when it lands or, if midnight passed while its call was *)
(* suspended, in the one that was current when it was submitted; never in  *)
(* any other.                                                              *)
(***************************************************************************)
C6_NoCrossPartitionWrite ==
    [][Len(writes') > Len(writes) =>
          LET w == writes'[Len(writes')]
          IN  w.part = today \/ w.part = calls[w.buf].date]_vars

(***************************************************************************)
(* C7.  A level call never rejects: whatever fails inside it, the failure  *)
(* is reported once to the error sink and the call resolves to null.       *)
(***************************************************************************)
C7_LevelCallNeverThrows ==
    /\ \A c \in CallIds :
           /\ calls[c].result \in {"pending", "null"}
           /\ calls[c].pc = "done" => calls[c].result = "null"
    /\ errSink = Cardinality({c \in CallIds : calls[c].threw})

C7_Witness ==
    /\ \E c, d \in CallIds :
           /\ calls[c].threw /\ ~calls[c].pushed /\ calls[c].result = "null"
           /\ calls[d].threw /\ calls[d].pushed /\ calls[d].result = "null"
    /\ errSink = 2

(***************************************************************************)
(* C8.  At most one handle opened by the instance is open at any time, it  *)
(* is the one the instance references, and it belongs to the date          *)
(* partition recorded in the date marker.                                  *)
(***************************************************************************)
C8_AtMostOneOpenHandle ==
    /\ Cardinality(OpenHandles) <= 1
    /\ \A h \in OpenHandles : logFile = h /\ HandleDate(h) = logFileDate

(***************************************************************************)
(* C9.  With fileTimeout = 0 no idle-close timer is ever armed, and        *)
(* whenever no append is in progress no handle is open.                    *)
(***************************************************************************)
C9_NoHandleLeftOpenBetweenCalls ==
    fileTimeout = 0 =>
        /\ Scheduled = {}
        /\ logFileTimeout = 0
        /\ Idle => OpenHandles = {}

(***************************************************************************)
(* C10.  closeLogs.  As claimed: when a handle is referenced it is closed, *)
(* the timer is cancelled and the date marker is cleared (0: no date),     *)
(* after which no handle is open and no idle-close callback is scheduled.  *)
(***************************************************************************)
C10_CloseClearsEverything ==
    [][(closeLogs /\ logFile # 0) =>
          /\ handles'[logFile] = "closed"
          /\ logFile' = 0
          /\ logFileTimeout' = 0
          /\ logFileDate' = 0
          /\ \A h \in CallIds : handles'[h] # "open"
          /\ \A t \in CallIds : timers'[t] = NoTimer]_vars

\* closeLogs applied in a state where it has nothing to do, given as the
\* values of this._logFile, this._logFileTimeout, the handles, the timers and
\* the date marker in that state.
closeLogsChangesNothing(lf, lt, hs, ts, lfd) ==
    /\ closeLogsFile(lf) = lf
    /\ closeLogsTimeout(lf, lt) = lt
    /\ closeLogsHandles(lf, hs) = hs
    /\ closeLogsTimers(lf, lt, ts) = ts
    /\ closeLogsDate(lfd) = lfd

(***************************************************************************)
(* C10, as amended.  closeLogs is idempotent: when the instance references *)
(* a handle, that handle is closed, the timer the instance references is   *)
(* cancelled, both references become null, and the date marker, every      *)
(* other handle and every other timer are left as they were; a second call *)
(* right after changes nothing; and called while no handle is referenced   *)
(* it changes nothing.                                                     *)
(***************************************************************************)
C10_CloseIsIdempotent ==
    /\ [][(closeLogs /\ logFile # 0) =>
             /\ handles'[logFile] = "closed"
             /\ logFile' = 0
             /\ logFileTimeout' = 0
             /\ logFileTimeout # 0 => timers'[logFileTimeout] = NoTimer
             /\ logFileDate' = logFileDate
             /\ \A h \in CallIds \ {logFile} : handles'[h] = handles[h]
             /\ \A t \in CallIds \ {logFileTimeout} : timers'[t] = timers[t]
             /\ closeLogsChangesNothing(logFile', logFileTimeout', handles',
                                        timers', logFileDate')]_vars
    /\ [](logFile = 0 =>
             closeLogsChangesNothing(logFile, logFileTimeout, handles, timers,
                                     logFileDate))

C10_Witness ==
    /\ logFile = 0
    /\ logFileTimeout = 0
    /\ Idle
    /\ fileTimeout > 0
    /\ now = 0
    /\ today = 1
    /\ \E h \in CallIds : handles[h] = "closed" /\ timers[h] = NoTimer
    /\ \A c \in CallIds : ~calls[c].threw

(***************************************************************************)
(* C11.  A static level function (Log.debug/info/warn/error) returns null  *)
(* from the call itself and acts on the console only: it leaves the        *)
(* instance's queue, handle, timer, date marker, calls, files and values   *)
(* as they were, and does not display the values.                          *)
(***************************************************************************)
C11_StaticLevelTouchesOnlyConsole ==
    /\ [][(\E type \in Levels, usePrevLog \in BOOLEAN, msg \in Messages :
              StaticLevel(type, usePrevLog, msg)) =>
             /\ UNCHANGED instance
             /\ rendered'.by = "static"
             /\ rendered'.result = "null"]_vars
    /\ [](rendered.by = "static" =>
             rendered.result = "null" /\ ~rendered.valuesLog)

C11_Witness ==
    /\ rendered.by = "static"
    /\ rendered.level = "error"
    /\ rendered.result = "null"
    /\ shouldSaveConsole
    /\ logDataQueue # <<>>
    /\ logFile # 0
    /\ values # {}
    /\ \E c \in CallIds : calls[c].pc = "write"

(***************************************************************************)
(* C12.  The list readSubDir(root) resolves to holds, for every regular    *)
(* file under the root at any depth, an entry with that file's name, the   *)
(* directory it lies in and its path; the path of every entry is its       *)
(* directory joined with its name; and every entry is a regular file of    *)
(* the tree, never a directory or a symbolic link.                         *)
(***************************************************************************)
C12_ListsEveryFileAndNoDirectory ==
    listing.state = "resolved" =>
        LET files == listing.files
        IN  /\ \A node \in Nodes :
                   tree[node] = "file" =>
                       \E k \in 1..Len(files) :
                           /\ files[k].path = Normalize(root) \o node
                           /\ files[k].name = node[Len(node)]
                           /\ NodeOf(root, files[k].direcotry) = Parent(node)
            /\ \A k \in 1..Len(files) :
                   /\ files[k].path = Join(files[k].direcotry, files[k].name)
                   /\ NodeOf(root, files[k].path) \in Nodes
                   /\ tree[NodeOf(root, files[k].path)] = "file"

C12_Witness ==
    /\ listing.state = "resolved"
    /\ root = <<".", "tmp">>
    /\ Len(listing.files) = 2
    /\ \E node \in Nodes : Len(node) = MaxDepth /\ tree[node] = "file"
    /\ \E node \in Nodes : Len(node) = 1 /\ tree[node] = "file"
    /\ \E node \in Nodes : tree[node] = "symlink"

(***************************************************************************)
(* C13.  With fileTimeout > 0 the idle-close timer is debounced: when it   *)
(* fires and closes the handle, at least fileTimeout has passed since the  *)
(* most recent append was issued.                                          *)
(***************************************************************************)
C13_TimerNeverClosesEarly ==
    [][\A t \in CallIds :
          (TimerFire(t) /\ logFile # 0) => now >= lastAppend + fileTimeout]_vars

(***************************************************************************)
(* C14.  An append issued while an earlier append of the instance is still *)
(* in progress only pushes its buffer and returns: it is not suspended in  *)
(* a directory creation, an open or a write, it has opened no file and has *)
(* written through no handle.                                              *)
(***************************************************************************)
C14_OverlappingAppendOnlyEnqueues ==
    \A c, d \in CallIds :
        (d < c /\ InFlight(d) /\ calls[c].pushed) =>
            /\ calls[c].pc = "done"
            /\ handles[c] = "none"
            /\ calls[c].via = 0

\* The buffer submitted by call c has reached a log file.
Landed(c) == \E w \in 1..Len(writes) : writes[w].buf = c

\* Nothing is left that could still write: no append is in progress and no
\* idle-close callback is scheduled.
Quiescent == Idle /\ Scheduled = {}

(***************************************************************************)
(* C15.  Every buffer handed to append is eventually written without the   *)
(* help of a later append, directory creations, opens and writes all       *)
(* succeeding: once no append is in progress and no timer is scheduled,    *)
(* every buffer that was submitted is in a log file.                       *)
(***************************************************************************)
C15_EveryBufferIsWritten ==
    Quiescent => \A c \in CallIds : calls[c].pushed => Landed(c)

\* Buffer c is in the pending queue.
Queued(c) == \E k \in 1..Len(logDataQueue) : logDataQueue[k] = c

(***************************************************************************)
(* C16.  No buffer is dropped when an append fails: once a directory       *)
(* creation, an open or a write of an append has failed, every buffer that *)
(* was submitted and has not reached a log file is in the pending queue.   *)
(***************************************************************************)
C16_UnwrittenBuffersStayQueued ==
    (\E f \in CallIds : calls[f].pushed /\ calls[f].threw) =>
        \A c \in CallIds : (calls[c].pushed /\ ~Landed(c)) => Queued(c)

\* The labels that name a window: the relativePathString of an instance.
WindowLabels == {relativePathString, otherPathString}

(***************************************************************************)
(* C17.  Continuation.  A render whose label is the label of the window on *)
(* display, or the continuation sentinel while a window is on display,     *)
(* prints its line with the in-window prefix and nothing else, neither a   *)
(* header nor a footer, and leaves the window label as it was.             *)
(***************************************************************************)
C17_ContinuationPrintsInsideWindow ==
    (/\ rendered.by # "none"
     /\ rendered.pre # ""
     /\ rendered.label = rendered.pre \/ rendered.label = Sentinel) =>
        /\ Len(rendered.lines) = 1
        /\ rendered.lines[1].kind = "line"
        /\ rendered.lines[1].prefix
        /\ relativePathBeingDisplayed = rendered.pre

C17_Witness ==
    /\ rendered.by = "static"
    /\ rendered.label = Sentinel
    /\ rendered.pre = relativePathString
    /\ Len(rendered.lines) = 1
    /\ relativePathBeingDisplayed = relativePathString

(***************************************************************************)
(* C18.  Window switch.  A render whose label names a window other than    *)
(* the one on display prints the footer of the window on display, then a   *)
(* header holding the new label, then its line with the in-window prefix,  *)
(* and leaves the new label as the window label; the two labels may be     *)
(* those of two Log instances.                                             *)
(***************************************************************************)
C18_SwitchPrintsFooterHeaderLine ==
    (/\ rendered.by # "none"
     /\ rendered.pre # ""
     /\ rendered.label \in WindowLabels
     /\ rendered.label # rendered.pre) =>
        /\ Len(rendered.lines) = 3
        /\ rendered.lines[1].kind = "footer"
        /\ rendered.lines[2].kind = "header"
        /\ rendered.lines[2].label = rendered.label
        /\ rendered.lines[3].kind = "line"
        /\ rendered.lines[3].prefix
        /\ relativePathBeingDisplayed = rendered.label

C18_Witness ==
    /\ rendered.by = "instance"
    /\ rendered.pre = otherPathString
    /\ rendered.label = relativePathString
    /\ Len(rendered.lines) = 3
    /\ relativePathBeingDisplayed = relativePathString

(***************************************************************************)
(* C19.  A render whose label is absent or is the continuation sentinel,   *)
(* as the static level functions issue it, prints no header and sets no    *)
(* window label: the window label is afterwards what it was or empty; with *)
(* no window on display none is opened and the line has no prefix; and an  *)
(* absent label closes the window on display with a footer and leaves the  *)
(* window label empty.                                                     *)
(***************************************************************************)
C19_NoLabelOpensNoWindow ==
    (rendered.by # "none" /\ rendered.label \in {Sentinel, Absent}) =>
        /\ \A k \in 1..Len(rendered.lines) : rendered.lines[k].kind # "header"
        /\ relativePathBeingDisplayed \in {"", rendered.pre}
        /\ rendered.pre = "" =>
               /\ relativePathBeingDisplayed = ""
               /\ Len(rendered.lines) = 1
               /\ ~rendered.lines[1].prefix
        /\ (rendered.label = Absent /\ rendered.pre # "") =>
               /\ Len(rendered.lines) = 2
               /\ rendered.lines[1].kind = "footer"
               /\ rendered.lines[2].kind = "line"
               /\ ~rendered.lines[2].prefix
               /\ relativePathBeingDisplayed = ""

C19_Witness ==
    /\ rendered.by = "static"
    /\ rendered.label = Absent
    /\ rendered.pre = otherPathString
    /\ rendered.lines[1].kind = "footer"
    /\ relativePathBeingDisplayed = ""

(***************************************************************************)
(* C20.  Errors go to the error sink whatever the window state: the        *)
(* message line of a render at level error, and of a render at any level   *)
(* whose message is an Error or an instance of a subclass of Error, is     *)
(* printed through the error sink.                                         *)
(***************************************************************************)
C20_ErrorsGoToErrorSink ==
    (/\ rendered.by # "none"
     /\ rendered.level = "error" \/ rendered.msg \in {"Error", "TypeError"}) =>
        \E k \in 1..Len(rendered.lines) :
            rendered.lines[k].kind = "line" /\ rendered.lines[k].sink = "error"

(***************************************************************************)
(* C21.  No buffer is written to disk more than once: the buffers that     *)
(* have reached the log files are pairwise distinct, also when append      *)
(* calls overlap.                                                          *)
(***************************************************************************)
C21_NoBufferWrittenTwice ==
    \A a, b \in 1..Len(writes) : a # b => writes[a].buf # writes[b].buf

(***************************************************************************)
(* C22.  The handle is neither closed nor replaced under a drain: while an *)
(* append is awaiting a write of its drain loop, the handle it started the *)
(* loop with is open and is the one the instance references.               *)
(***************************************************************************)
C22_HandleStableDuringDrain ==
    \A c \in CallIds :
        calls[c].pc = "write" =>
            handles[calls[c].via] = "open" /\ logFile = calls[c].via

(***************************************************************************)
(* C23.  Over any sequence of renders by the instance, a second instance   *)
(* and the static functions, the headers and footers custom prints         *)
(* alternate, the first of all being a header: within a render and from    *)
(* one render to the next no two headers and no two footers follow each    *)
(* other.  And the window label is non-empty exactly when the border       *)
(* printed last is a header.                                               *)
(***************************************************************************)
C23_BordersAlternate ==
    LET bs == Borders(rendered.lines)
    IN  /\ \A k \in 1..Len(bs) :
               bs[k].kind # (IF k = 1 THEN rendered.preBorder ELSE bs[k - 1].kind)
        /\ (rendered.preBorder = "none" /\ bs # <<>>) => bs[1].kind = "header"
        /\ rendered.border = "none" => bs = <<>>
        /\ relativePathBeingDisplayed # "" <=> rendered.border = "header"

C23_Witness ==
    /\ rendered.by = "other"
    /\ rendered.preBorder = "header"
    /\ Len(Borders(rendered.lines)) = 2
    /\ rendered.border = "header"
    /\ rendered.pre = relativePathString
    /\ relativePathBeingDisplayed = otherPathString
====
